---- MODULE Spec2Model ----
(***************************************************************************)
(* A model of the Writer batch image import macro (main.py,                *)
(* batchimport.py) and of the easymacro helpers it calls, and of other     *)
(* parts of easymacro: timers, email, configuration, Calc sheets.          *)
(*                                                                         *)
(* The specifications of the module, each with the variables of the        *)
(* others held at their idle values:                                       *)
(*   Spec       the job entry point and the import loop, one step of the   *)
(*              loop per action, run against a document of the host        *)
(*   TimerSpec  Timer.start / Timer.stop and the repeating timer threads   *)
(*   OnceSpec   the registry _EVENTS under start, stop, once and cancel,   *)
(*              with the one-shot timer threads                            *)
(*   EmailSpec  Email.send and the thread running Email._send_email        *)
(*   AppSpec    set_app_config                                             *)
(*   CalcSpec   LOCalc.sort over LOCalc.move                               *)
(*   ConfSpec   Config.set / Config.get over the JSON files                *)
(*   PathsSpec  Paths.get for every way of calling it                      *)
(*   WrapSpec   functions wrapped by catch_exception                       *)
(*   StreamSpec LODocument.to_pdf / export into an IOStream.OutputStream   *)
(***************************************************************************)
EXTENDS Integers, Sequences, FiniteSets, TLC

VARIABLES
    \* ---- the host: active component, its text, draw page and selection
    module,     \* module identifier of the desktop's current component
    selKind,    \* kind of CurrentSelection: "range", "ranges" or "object"
    selPos,     \* number of text items before the selected text range
    text,       \* the document's text: sequence of [k, id] items
    drawPage,   \* the document's draw page: sequence of shapes, in index order
    \* ---- MainJob / image_batch_import
    jobCtx,     \* MainJob.ctx
    pc,         \* position of the running call
    exc,        \* exception that left the last call ("None" when it returned)
    ret,        \* value returned by the last call of trigger
    picker,     \* the file picker as Paths.get configured it
    images,     \* the value Paths.get returned
    idx,        \* 1-based number of the loop iteration in progress
    cursor,     \* the LOWriterTextRange held in `cursor`: its text position
    importArgs, \* the arguments trigger handed to image_batch_import
    \* ---- history of the current call
    triggers,   \* calls of MainJob.trigger so far
    trigArgs,   \* the args of the last call of MainJob.trigger
    imports,    \* calls of image_batch_import so far
    steps,      \* document operations performed by the current call, in order
    inserted,   \* id of the graphic inserted by the iteration in progress
    raisedAt,   \* iteration in which a host call raised (0: none)
    text0,      \* text when the current call started
    drawPage0,  \* draw page when the current call started
    \* ---- easytools.Timer
    events,     \* _EVENTS: name -> thread whose Event is registered (0: no key)
    tpc,        \* position of each timer thread
    flag,       \* the threading.Event of each thread: is it set
    calls,      \* macro invocations started by all timer threads (bounded)
    stopRet,    \* history: a Timer.stop that set the thread's Event returned
    lateCalls,  \* history: macro invocations started after that return
    spc,        \* position of the caller inside Timer.stop: [name, thread]
    \* ---- one-shot timers (Timer.once / Timer.cancel)
    onceReg,    \* _EVENTS entries holding a threading.Timer: name -> timer, 0 none
    opc,        \* timer -> position of the threading.Timer thread
    ofin,       \* timer -> its `finished` Event is set
    tname,      \* history: thread -> name Timer.start was called with
    oname,      \* history: timer -> name Timer.once was called with
    ocalls,     \* history: timer -> macro invocations it made
    cancelled,  \* history: timer -> Timer.cancel reached it while it waited
    cancelOut,  \* history: outcome of the last Timer.cancel
    stopOut,    \* history: the last Timer.stop that found no Event under name
    \* ---- easytools.Email
    emsgs,      \* the messages the thread was started with
    mpc,        \* position of the caller of Email.send
    epc,        \* position of the thread running Email._send_email
    eidx,       \* index of the message the thread's loop is at
    eerror,     \* SmtpServer._error
    elog,       \* history: what the thread did, in order
    \* ---- easytools.set_app_config
    cfg,        \* the value the configuration key holds ("absent": no such key)
    cfgRet,     \* how the last set_app_config ended: "True", "False", "raised"
    cfgCall,    \* history: the last call: [prev, new, set, committed]
    \* ---- easycalc.LOCalc
    sheets,     \* the document's sheets: their names in index order
    sheets0,    \* history: the sheets when the last sort was called
    sortRev,    \* history: `reverse` of the last sort ("none": no sort yet)
    \* ---- easytools.Config
    files,      \* prefix -> JSON content of zaz-<prefix>.json ("missing": no file)
    wasSet,     \* history: the prefixes Config.set has written
    lastSet,    \* history: the last Config.set: [prefix, key, val, exc, before]
    \* ---- easymain.Paths
    got,        \* the last Paths.get: the picker as configured and the result
    \* ---- easytools.catch_exception
    isWin,      \* IS_WIN
    wcall,      \* the last call of a wrapped function and how it ended
    \* ---- easyuno.IOStream.OutputStream under LODocument.to_pdf / export
    ostream,    \* `stream` of the call is an OutputStream (not None)
    obuffer,    \* OutputStream._buffer: a sequence of bytes
    oclosed,    \* OutputStream.closed
    owrites,    \* history: the byte sequences given to writeBytes, in order
    xpc,        \* position of to_pdf / export: "idle", "storing", "returned"
    xcall,      \* the call in progress or last made: [method, path]
    xret        \* how the last call ended: [kind, val, logged]

importVars == <<module, selKind, selPos, text, drawPage, jobCtx, pc, exc, ret,
                picker, images, idx, cursor, importArgs, triggers, trigArgs,
                imports, steps, inserted, raisedAt, text0, drawPage0>>
timerVars == <<events, tpc, flag, calls, stopRet, lateCalls, spc>>
onceVars == <<onceReg, opc, ofin, tname, oname, ocalls, cancelled, cancelOut,
              stopOut>>
emailVars == <<emsgs, mpc, epc, eidx, eerror, elog>>
appVars == <<cfg, cfgRet, cfgCall>>
calcVars == <<sheets, sheets0, sortRev>>
confVars == <<files, wasSet, lastSet>>
pathVars == <<got>>
wrapVars == <<isWin, wcall>>
streamVars == <<ostream, obuffer, oclosed, owrites, xpc, xcall, xret>>
otherVars == <<emailVars, appVars, calcVars, confVars, pathVars, wrapVars,
               streamVars>>
exceptWrap == <<importVars, timerVars, onceVars, emailVars, appVars, calcVars,
                confVars, pathVars, streamVars>>
exceptEmail == <<importVars, timerVars, onceVars, appVars, calcVars, confVars,
                 pathVars, wrapVars, streamVars>>
exceptApp == <<importVars, timerVars, onceVars, emailVars, calcVars, confVars,
               pathVars, wrapVars, streamVars>>
exceptCalc == <<importVars, timerVars, onceVars, emailVars, appVars, confVars,
                pathVars, wrapVars, streamVars>>
exceptConf == <<importVars, timerVars, onceVars, emailVars, appVars, calcVars,
                pathVars, wrapVars, streamVars>>
exceptPaths == <<importVars, timerVars, onceVars, emailVars, appVars, calcVars,
                 confVars, wrapVars, streamVars>>
exceptStream == <<importVars, timerVars, onceVars, emailVars, appVars, calcVars,
                  confVars, pathVars, wrapVars>>
vars == <<importVars, timerVars, onceVars, otherVars>>

-----------------------------------------------------------------------------
(* Bounds of the model *)

MaxFiles == 2       \* most files the picker returns
MaxTriggers == 2    \* calls of MainJob.trigger in one behaviour
MaxText == 2        \* characters the document holds before the first call
MaxShapes == 1      \* shapes the draw page holds before the first call
MaxThreads == 2     \* timer threads started in one behaviour
MaxCalls == 2       \* macro invocations after which no further wait times out
MaxOnce == 1        \* one-shot timers started in one behaviour
MaxMsgs == 2        \* most messages one Email.send is given
MaxSheets == 3      \* most sheets of a Calc document
MaxArgs == 2        \* most positional arguments of a wrapped call
MaxChunk == 2       \* most bytes one writeBytes is given
MaxWrites == 2      \* writeBytes calls during one storeToURL

-----------------------------------------------------------------------------
(* Strings are sequences of characters, so that lower(), upper() and       *)
(* concatenation are computed.                                             *)

UpperChars == {"A", "B", "C", "D", "E", "F", "G", "H", "I", "J", "K", "L", "M",
               "N", "O", "P", "Q", "R", "S", "T", "U", "V", "W", "X", "Y", "Z"}

ToLowerChar == [A |-> "a", B |-> "b", C |-> "c", D |-> "d", E |-> "e",
                F |-> "f", G |-> "g", H |-> "h", I |-> "i", J |-> "j",
                K |-> "k", L |-> "l", M |-> "m", N |-> "n", O |-> "o",
                P |-> "p", Q |-> "q", R |-> "r", S |-> "s", T |-> "t",
                U |-> "u", V |-> "v", W |-> "w", X |-> "x", Y |-> "y",
                Z |-> "z"]

\* str.lower()
Lower(s) == [i \in 1..Len(s) |->
                IF s[i] \in UpperChars THEN ToLowerChar[s[i]] ELSE s[i]]

\* str.upper()
Upper(s) == [i \in 1..Len(s) |->
                IF \E u \in UpperChars : ToLowerChar[u] = s[i]
                THEN CHOOSE u \in UpperChars : ToLowerChar[u] = s[i]
                ELSE s[i]]

-----------------------------------------------------------------------------
(* easydocs.LODocuments: the wrapper class of the active component *)

StartModule == "com.sun.star.frame.StartModule"
WriterModule == "com.sun.star.text.TextDocument"

\* LODocuments._classes
Classes ==
    ("com.sun.star.frame.StartModule" :> "LOStart") @@
    ("com.sun.star.sheet.SpreadsheetDocument" :> "LOCalc") @@
    ("com.sun.star.text.TextDocument" :> "LOWriter") @@
    ("com.sun.star.drawing.DrawingDocument" :> "LODraw") @@
    ("com.sun.star.presentation.PresentationDocument" :> "LOImpress") @@
    ("com.sun.star.formula.FormulaProperties" :> "LOMath") @@
    ("com.sun.star.sdb.OfficeDatabaseDocument" :> "LOBase") @@
    ("com.sun.star.script.BasicIDE" :> "LOBasicIDE")

\* the _type of LOImpress, LOMath and LOBasicIDE, which easydocs imports from
\* easyimpress, easymath and easyide
MissingClassType ==
    ("LOImpress" :> "impress") @@ ("LOMath" :> "math") @@ ("LOBasicIDE" :> "ide")

\* the _type attribute of each wrapper class
ClassType ==
    ("LOStart" :> "start") @@ ("LOCalc" :> "calc") @@ ("LOWriter" :> "writer") @@
    ("LODraw" :> "draw") @@ ("LOBase" :> "base") @@ MissingClassType

\* A module the ModuleManager identifies and _classes has no entry for
WebModule == "com.sun.star.text.WebDocument"

Modules == DOMAIN Classes \cup {WebModule}

\* LODocuments._get_class_doc: the class looked up in _classes, a KeyError
\* when the identified module is no key of it
GetClassDoc(m) ==
    IF m = StartModule
    THEN [exc |-> "None", cls |-> Classes[StartModule]]
    ELSE IF m \in DOMAIN Classes
         THEN [exc |-> "None", cls |-> Classes[m]]
         ELSE [exc |-> "KeyError", cls |-> "none"]

\* LODocuments.active followed by LODocument.type
ActiveType(m) ==
    LET c == GetClassDoc(m)
    IN  IF c.exc = "None" THEN [exc |-> "None", type |-> ClassType[c.cls]]
        ELSE [exc |-> c.exc, type |-> "none"]

-----------------------------------------------------------------------------
(* easymain.Paths: path conversion and the file picker *)

UrlPrefix == "file://"
HomeDir == <<"/", "home", "user">>

\* Path(init_dir).expanduser().resolve() on a path that starts with '~'
ExpandUser(p) == IF Len(p) > 0 /\ p[1] = "~" THEN HomeDir \o Tail(p) ELSE p

\* Paths.to_url: a URL is kept, an absolute path becomes a file URL and
\* Path.as_uri raises ValueError for any other path
ToUrl(p) ==
    IF Len(p) > 0 /\ p[1] = UrlPrefix THEN [exc |-> "None", val |-> p]
    ELSE IF Len(p) > 0 /\ p[1] = "/"
         THEN [exc |-> "None", val |-> <<UrlPrefix>> \o p]
         ELSE [exc |-> "ValueError", val |-> p]

\* Paths.to_system: a file URL loses its scheme, anything else is kept
ToSystem(p) == IF Len(p) > 0 /\ p[1] = UrlPrefix THEN Tail(p) ELSE p

\* The filter list of Paths.get given as a tuple of (title, pattern) pairs:
\* appendFilter(f[0].upper(), f'*.{f[1].lower()}')
AppendedFilters(filters) ==
    [i \in 1..Len(filters) |->
        [title |-> Upper(filters[i].title),
         pattern |-> <<"*", ".">> \o Lower(filters[i].pattern)]]

\* Variant of PathsInit: `paths` starts as a list holding the empty string
PathsInitList == [exc |-> "None", kind |-> "list", val |-> << << >> >>]

\* The initial value of `paths` in Paths.get, returned when the dialog is
\* cancelled: the empty string
PathsInit == [exc |-> "None", kind |-> "str", val |-> << >>]

\* Variant of PathsGet: without `if not multiple: paths = paths[0]`
PathsGetList(init_dir, filters, multiple, answer) ==
    [opened |-> TRUE,
     dir |-> ToUrl(ExpandUser(init_dir)).val,
     multi |-> multiple,
     filters |-> AppendedFilters(filters),
     answer |-> answer,
     result |->
        IF ~answer.ok THEN PathsInit
        ELSE [exc |-> "None", kind |-> "list",
              val |-> [i \in 1..Len(answer.files) |->
                          ToSystem(answer.files[i])]]]

\* Paths.get(init_dir, filters, multiple) with the user's answer
\* [ok, files]: the picker as configured and the value returned
PathsGet(init_dir, filters, multiple, answer) ==
    LET dir == ToUrl(ExpandUser(init_dir))
        paths == [i \in 1..Len(answer.files) |-> ToSystem(answer.files[i])]
    IN  [opened |-> TRUE,
         dir |-> dir.val,
         multi |-> multiple,
         filters |-> AppendedFilters(filters),
         answer |-> answer,
         result |->
            IF ~answer.ok THEN PathsInit
            ELSE IF multiple
                 THEN [exc |-> "None", kind |-> "list", val |-> paths]
                 ELSE IF Len(paths) > 0
                      THEN [exc |-> "None", kind |-> "str", val |-> paths[1]]
                      ELSE [exc |-> "IndexError", kind |-> "str", val |-> << >>]]

NoPicker == [opened |-> FALSE, dir |-> << >>, multi |-> FALSE, filters |-> << >>,
             answer |-> [ok |-> FALSE, files |-> << >>], result |-> PathsInit]

-----------------------------------------------------------------------------
(* easywriter / easydrawpage / easyshape: the operations of the loop *)

DefaultWidth == 5000
DefaultHeight == 5000

\* the tuple `filters` of image_batch_import
ImageFilters ==
    << [title |-> <<"I", "m", "a", "g", "e", "s">>,
        pattern |-> <<"*", ".", "b", "m", "p", ";", "*", ".", "g", "i", "f", ";",
                      "*", ".", "j", "p", "g", ";", "*", ".", "j", "p", "e", "g",
                      ";", "*", ".", "p", "n", "g", ";", "*", ".", "t", "i", "f",
                      ";", "*", ".", "t", "i", "f", "f">>] >>

\* the directory image_batch_import hands to Paths.get: '~/Pictures'
PicturesDir == <<"~", "Pictures">>

\* The files the picker can return (getSelectedFiles gives URLs), in its order
AllFiles == [i \in 1..MaxFiles |-> <<UrlPrefix, "/", "image", i>>]

\* The host's ActualSize of the graphic loaded from a URL
ActualSizeOf(url) == [w |-> 10 * url[Len(url)], h |-> 10 * url[Len(url)] + 1]

\* LOWriter.selection: one text range is unwrapped, several stay a
\* LOWriterTextRanges, any other selection is returned as the UNO object
Selection(kind, pos) ==
    LET impl == IF kind \in {"range", "ranges"} THEN "SwXTextRanges" ELSE "other"
        count == IF kind = "ranges" THEN 2 ELSE 1
    IN  IF impl = "SwXTextRanges"
        THEN IF count = 1 THEN [cls |-> "LOWriterTextRange", pos |-> pos]
             ELSE [cls |-> "LOWriterTextRanges", pos |-> pos]
        ELSE [cls |-> "pyuno", pos |-> pos]

\* insert_image and new_line are methods of LOWriterTextRange only
HasInsertImage(cls) == cls = "LOWriterTextRange"

\* XTextCursor.gotoEnd(False): the cursor collapses at the end of the text
GotoEnd(txt, pos) == Len(txt)

\* Variant of InsertContentPos: the content goes in at the start of the text
InsertContentAtStart(txt, pos) == 0

\* LOWriterTextRange.insert_content without a cursor: a cursor is created
\* at the range and sent to the end of the text before the content goes in
InsertContentPos(txt, pos) == GotoEnd(txt, pos)

\* LOWriterTextRange.new_line: likewise at the end of the text
NewLinePos(txt, pos) == GotoEnd(txt, pos)

\* the text with item x put after its first pos items
InsertAt(txt, pos, x) == SubSeq(txt, 1, pos) \o <<x>> \o SubSeq(txt, pos + 1, Len(txt))

Break == [k |-> "par", id |-> 0]
Char == [k |-> "chr", id |-> 0]

RECURSIVE InsertBreaks(_, _, _)
\* new_line(count): count paragraph breaks, each at the cursor, which moves on
InsertBreaks(txt, pos, count) ==
    IF count = 0 THEN txt
    ELSE InsertBreaks(InsertAt(txt, pos, Break), pos + 1, count - 1)

\* Variant of DrawPageGetItem: the sign of a negative index is dropped
DrawPageGetItemAbs(n, index) == IF index < 0 THEN 0 - index ELSE index + 1

\* LODrawPage.__getitem__ with an int: the 1-based place of obj[index], a
\* negative index counting from the end
DrawPageGetItem(n, index) == IF index < 0 THEN n + index + 1 ELSE index + 1

\* LOShape.original_size: the shape's size becomes its ActualSize
OriginalSize(shape) == [shape EXCEPT !.size = shape.actual]

\* Variant of Propagate: the loop body sits in a try/except that goes on
\* with the next image
PropagateSwallow(e) ==
    /\ pc' = IF idx < Len(images.val) THEN "insert" ELSE "ended"
    /\ exc' = "None"
    /\ ret' = IF idx < Len(images.val) THEN "unset" ELSE "None"
    /\ idx' = IF idx < Len(images.val) THEN idx + 1 ELSE idx

\* The loop of image_batch_import and MainJob.trigger hold no try/except:
\* an exception ends the call and reaches the host
Propagate(e) ==
    /\ pc' = "ended"
    /\ exc' = e
    /\ ret' = "unset"
    /\ idx' = idx

\* Variant of TriggerCallArgs: args is passed on
TriggerCallArgsForward(args) == args

\* What MainJob.trigger hands to image_batch_import
TriggerCallArgs(args) == << >>

\* The value of `return` in MainJob.trigger
TriggerReturn == "None"

ArgValues == {<< >>, <<"event">>}
TimerNames == {"a", "b"}
Threads == 1..MaxThreads
SelKinds == {"range", "ranges", "object"}
\* where the selection can be: at the start, in the middle or at the end
SelPositions(txt) == {0, Len(txt) \div 2, Len(txt)}

GraphicsGained == Len(drawPage) - Len(drawPage0)
NumBreaks(txt) == Cardinality({i \in 1..Len(txt) : txt[i].k = "par"})
BreaksGained == NumBreaks(text) - NumBreaks(text0)
NumImages == Len(images.val)

-----------------------------------------------------------------------------
(* The import: state after construction and one action per step *)

TimerIdle ==
    /\ events = [n \in TimerNames |-> 0]
    /\ tpc = [t \in 1..MaxThreads |-> "unborn"]
    /\ flag = [t \in 1..MaxThreads |-> FALSE]
    /\ calls = 0
    /\ stopRet = [t \in 1..MaxThreads |-> FALSE]
    /\ lateCalls = [t \in 1..MaxThreads |-> 0]
    /\ spc = [name |-> "none", thread |-> 0]
    /\ onceReg = [n \in TimerNames |-> 0]
    /\ opc = [o \in 1..MaxOnce |-> "unborn"]
    /\ ofin = [o \in 1..MaxOnce |-> FALSE]
    /\ tname = [t \in 1..MaxThreads |-> "none"]
    /\ oname = [o \in 1..MaxOnce |-> "none"]
    /\ ocalls = [o \in 1..MaxOnce |-> 0]
    /\ cancelled = [o \in 1..MaxOnce |-> FALSE]
    /\ cancelOut = [found |-> "nocall", raised |-> FALSE]
    /\ stopOut = [found |-> "nocall", exc |-> "None", tick |-> FALSE]

EmailIdle ==
    /\ emsgs = << >>
    /\ mpc = "idle"
    /\ epc = "none"
    /\ eidx = 0
    /\ eerror = ""
    /\ elog = << >>

\* Config: prefixes and keys, Python values and JSON values
Prefixes == {"p", "q"}
Keys == {"k1", "k2"}

\* a dict entry is a value that is not a dict itself, or is absent
Absent == [t |-> "absent", v |-> << >>]
NoEntries == [k \in Keys |-> Absent]
JAbsent == [j |-> "absent", v |-> << >>]
NoJEntries == [k \in Keys |-> JAbsent]
MissingFile == [j |-> "missing", v |-> << >>, d |-> NoJEntries]

\* no configuration file and no Config.set yet
ConfIdle ==
    /\ files = [p \in Prefixes |-> MissingFile]
    /\ wasSet = {}
    /\ lastSet = [prefix |-> "none", key |-> "", val |-> Absent,
                  exc |-> "None", before |-> MissingFile]

\* the key holds a true value and set_app_config has not been called
AppIdle ==
    /\ cfg = "True"
    /\ cfgRet = "none"
    /\ cfgCall = [prev |-> "True", new |-> "True", set |-> FALSE,
                  committed |-> FALSE]

\* a document of one sheet that was never sorted
CalcIdle ==
    /\ sheets = <<<<"a">>>>
    /\ sheets0 = sheets
    /\ sortRev = "none"

\* Paths.get has not been called
PathsIdle == got = NoPicker

NoCall == [args |-> << >>, kwargs |-> {}]

\* no wrapped function has been called, on a system that is not Windows
WrapIdle ==
    /\ isWin = FALSE
    /\ wcall = [called |-> FALSE, args |-> << >>, kwargs |-> {},
                outcome |-> "none", received |-> NoCall, escaped |-> "None",
                ret |-> [kind |-> "None", val |-> NoCall], logged |-> FALSE,
                msgbox |-> FALSE]

\* to_pdf / export returned nothing yet
NoReturn == [kind |-> "none", val |-> << >>, logged |-> FALSE]

\* neither to_pdf nor export has been called: there is no OutputStream
StreamIdle ==
    /\ ostream = FALSE
    /\ obuffer = << >>
    /\ oclosed = 0
    /\ owrites = << >>
    /\ xpc = "idle"
    /\ xcall = [method |-> "none", path |-> ""]
    /\ xret = NoReturn

OthersIdle ==
    /\ EmailIdle /\ AppIdle /\ CalcIdle /\ ConfIdle /\ PathsIdle /\ WrapIdle
    /\ StreamIdle

ImportIdle ==
    /\ module = WriterModule
    /\ selKind = "range"
    /\ selPos = 0
    /\ jobCtx = "ctx"
    /\ pc = "idle"
    /\ exc = "None"
    /\ ret = "unset"
    /\ picker = NoPicker
    /\ images = PathsInit
    /\ idx = 0
    /\ cursor = Selection("range", 0)
    /\ importArgs = << >>
    /\ triggers = 0
    /\ trigArgs = << >>
    /\ imports = 0
    /\ steps = << >>
    /\ inserted = 0
    /\ raisedAt = 0

\* A shape the page held before the import: its size is not its ActualSize
OldShape(j) == [id |-> j, size |-> [w |-> 1, h |-> 1],
                actual |-> [w |-> 3, h |-> 3], url |-> << >>]

Init ==
    /\ ImportIdle
    /\ TimerIdle
    /\ OthersIdle
    /\ \E n \in {0, MaxText} : text = [i \in 1..n |-> Char]
    /\ \E n \in 0..MaxShapes : drawPage = [j \in 1..n |-> OldShape(j)]
    /\ text0 = text
    /\ drawPage0 = drawPage

\* MainJob.trigger(args) up to the file picker: image_batch_import is called,
\* takes the active document, checks its type and takes the selection
Trigger ==
    /\ pc \in {"idle", "ended"}
    /\ triggers < MaxTriggers
    /\ \E args \in ArgValues, m \in Modules, k \in SelKinds, p \in SelPositions(text) :
        LET a == ActiveType(m)
        IN  /\ module' = m
            /\ selKind' = k
            /\ selPos' = p
            /\ importArgs' = TriggerCallArgs(args)
            /\ trigArgs' = args
            /\ cursor' = IF a.exc = "None" /\ a.type = "writer"
                         THEN Selection(k, p) ELSE cursor
            /\ IF a.exc # "None"
               THEN pc' = "ended" /\ exc' = a.exc /\ ret' = "unset"
               ELSE IF a.type # "writer"
                    THEN pc' = "ended" /\ exc' = "None" /\ ret' = TriggerReturn
                    ELSE pc' = "pick" /\ exc' = "None" /\ ret' = "unset"
    /\ triggers' = triggers + 1
    /\ imports' = imports + 1
    /\ picker' = NoPicker
    /\ images' = PathsInit
    /\ idx' = 0
    /\ steps' = << >>
    /\ inserted' = 0
    /\ raisedAt' = 0
    /\ text0' = text
    /\ drawPage0' = drawPage
    /\ UNCHANGED <<text, drawPage, jobCtx>>
    /\ UNCHANGED <<timerVars, onceVars, otherVars>>

\* app.paths.get('~/Pictures', filters, True) and the user's answer; an
\* empty result ends the call.  Looking up app.paths builds the table of
\* easymacro.__getattr__, which takes docs.active once more.
Pick ==
    /\ pc = "pick"
    /\ ActiveType(module).exc = "None"
    /\ \E ok \in BOOLEAN, n \in 0..MaxFiles :
        /\ (~ok => n = 0)
        /\ LET p == PathsGet(PicturesDir, ImageFilters, TRUE,
                             [ok |-> ok, files |-> SubSeq(AllFiles, 1, n)])
           IN  /\ picker' = p
               /\ images' = p.result
               /\ IF Len(p.result.val) = 0
                  THEN pc' = "ended" /\ ret' = TriggerReturn /\ idx' = 0
                  ELSE pc' = "insert" /\ ret' = "unset" /\ idx' = 1
    /\ exc' = "None"
    /\ UNCHANGED <<module, selKind, selPos, text, drawPage, jobCtx, cursor,
                   importArgs, triggers, trigArgs, imports, steps, inserted, raisedAt,
                   text0, drawPage0>>
    /\ UNCHANGED <<timerVars, onceVars, otherVars>>

\* cursor = cursor.insert_image(image)
InsertImage ==
    /\ pc = "insert"
    /\ \E fail \in BOOLEAN :
        LET u == ToUrl(images.val[idx])
            pos == InsertContentPos(text, cursor.pos)
            shape == [id |-> Len(drawPage) + 1,
                      size |-> [w |-> DefaultWidth, h |-> DefaultHeight],
                      actual |-> ActualSizeOf(u.val), url |-> u.val]
            e == IF ~HasInsertImage(cursor.cls) THEN "AttributeError"
                 ELSE IF u.exc # "None" THEN u.exc
                 ELSE IF fail THEN "HostError" ELSE "None"
        IN  IF e # "None"
            THEN /\ Propagate(e)
                 /\ raisedAt' = idx
                 /\ UNCHANGED <<text, drawPage, cursor, steps, inserted>>
            ELSE /\ text' = InsertAt(text, pos, [k |-> "img", id |-> shape.id])
                 /\ drawPage' = Append(drawPage, shape)
                 /\ cursor' = [cls |-> "LOWriterTextRange", pos |-> pos + 1]
                 /\ steps' = Append(steps, [op |-> "insert", i |-> idx])
                 /\ inserted' = shape.id
                 /\ pc' = "newline"
                 /\ UNCHANGED <<exc, ret, idx, raisedAt>>
    /\ UNCHANGED <<module, selKind, selPos, jobCtx, picker, images, importArgs,
                   triggers, trigArgs, imports, text0, drawPage0>>
    /\ UNCHANGED <<timerVars, onceVars, otherVars>>

\* cursor = cursor.new_line(2)
NewLine ==
    /\ pc = "newline"
    /\ \E fail \in BOOLEAN :
        LET pos == NewLinePos(text, cursor.pos)
        IN  IF fail
            THEN /\ Propagate("HostError")
                 /\ raisedAt' = idx
                 /\ UNCHANGED <<text, cursor, steps>>
            ELSE /\ text' = InsertBreaks(text, pos, 2)
                 /\ cursor' = [cls |-> "LOWriterTextRange", pos |-> pos + 2]
                 /\ steps' = Append(steps, [op |-> "newline", i |-> idx])
                 /\ pc' = "resize"
                 /\ UNCHANGED <<exc, ret, idx, raisedAt>>
    /\ UNCHANGED <<module, selKind, selPos, drawPage, jobCtx, picker, images,
                   importArgs, triggers, trigArgs, imports, inserted, text0, drawPage0>>
    /\ UNCHANGED <<timerVars, onceVars, otherVars>>

\* image = doc.draw_page[-1]; image.original_size(); then the next image or
\* the end of the call
ResetSize ==
    /\ pc = "resize"
    /\ \E fail \in BOOLEAN :
        LET k == DrawPageGetItem(Len(drawPage), -1)
        IN  IF fail
            THEN /\ Propagate("HostError")
                 /\ raisedAt' = idx
                 /\ UNCHANGED <<drawPage, steps>>
            ELSE /\ drawPage' = [drawPage EXCEPT ![k] = OriginalSize(drawPage[k])]
                 /\ steps' = Append(steps, [op |-> "resize", i |-> idx])
                 /\ IF idx = NumImages
                    THEN pc' = "ended" /\ ret' = TriggerReturn /\ idx' = idx
                    ELSE pc' = "insert" /\ ret' = "unset" /\ idx' = idx + 1
                 /\ UNCHANGED <<exc, raisedAt>>
    /\ UNCHANGED <<module, selKind, selPos, text, jobCtx, picker, images, cursor,
                   importArgs, triggers, trigArgs, imports, inserted, text0, drawPage0>>
    /\ UNCHANGED <<timerVars, onceVars, otherVars>>

Next == Trigger \/ Pick \/ InsertImage \/ NewLine \/ ResetSize

Spec == Init /\ [][Next]_vars

-----------------------------------------------------------------------------
(* Properties of the import *)

StepOps == <<"insert", "newline", "resize">>

\* insert, two breaks, size reset, for image 1, then image 2, ...
ExpectedSteps(n) ==
    [j \in 1..(3 * n) |-> [op |-> StepOps[((j - 1) % 3) + 1], i |-> ((j - 1) \div 3) + 1]]

IsPrefix(s, t) == Len(s) <= Len(t) /\ s = SubSeq(t, 1, Len(s))

PickedFiles == picker.answer.files

\* a call that the host did not interrupt has come to its end
EndedByItself == pc = "ended" /\ exc # "HostError"

\* C1: for a Writer document and the picked files p1..pn the call performs
\* insert, two paragraph breaks, size reset for each file in picker order, no
\* step of a later image before the reset of an earlier one, and the document
\* ends with n more graphics and 2n more paragraph breaks.
C1_StepsInOrder ==
    picker.opened =>
        /\ IsPrefix(steps, ExpectedSteps(Len(PickedFiles)))
        /\ EndedByItself =>
              /\ steps = ExpectedSteps(Len(PickedFiles))
              /\ GraphicsGained = Len(PickedFiles)
              /\ BreaksGained = 2 * Len(PickedFiles)

\* C2: with an active document that is not a Writer document the call
\* returns normally, opens no picker and changes no document.
C2_NonWriterReturns ==
    (pc = "ended" /\ module # WriterModule) =>
        /\ exc = "None"
        /\ ret = TriggerReturn
        /\ ~picker.opened
        /\ text = text0
        /\ drawPage = drawPage0

\* C3: the first image lands at the position of the selection the document
\* had when the trigger fired.
C3_FirstImageAtSelection ==
    (pc = "newline" /\ idx = 1) => text[selPos + 1] = [k |-> "img", id |-> inserted]

\* C4: the size reset of an iteration changes the image inserted in that
\* iteration, to its own ActualSize, and no other shape.
C4_ResetsInsertedImage ==
    [][(pc = "resize" /\ pc' # "resize" /\ raisedAt' = 0) =>
         \E k \in 1..Len(drawPage) :
            /\ drawPage[k].id = inserted
            /\ drawPage'[k].size = drawPage[k].actual
            /\ drawPage' = [drawPage EXCEPT ![k].size = drawPage[k].actual]]_vars

\* a size reset has just happened on a page that held a shape before the call
C4_Witness ==
    /\ Len(steps) > 0
    /\ steps[Len(steps)].op = "resize"
    /\ Len(drawPage0) > 0
    /\ idx = 2
    /\ drawPage[Len(drawPage)].id = inserted
    /\ drawPage[Len(drawPage)].size = ActualSizeOf(AllFiles[2])
    /\ drawPage[1].size # drawPage[1].actual

\* C5: for a Writer document and a non-empty picker result every selected
\* image is inserted, whatever the kind of the selection.
C5_AnySelectionInserts ==
    (EndedByItself /\ picker.opened /\ Len(PickedFiles) > 0) =>
        GraphicsGained = Len(PickedFiles)

\* C6: a cancelled picker, or one confirmed with no file, ends the call
\* normally with nothing inserted, nothing resized and the document as it was.
C6_EmptyPickChangesNothing ==
    (picker.opened /\ (~picker.answer.ok \/ Len(PickedFiles) = 0)) =>
        /\ pc = "ended"
        /\ exc = "None"
        /\ ret = TriggerReturn
        /\ steps = << >>
        /\ text = text0
        /\ drawPage = drawPage0

\* the picker was cancelled over a document that holds text and a shape
C6_Witness ==
    /\ picker.opened
    /\ ~picker.answer.ok
    /\ images.kind = "str"
    /\ pc = "ended"
    /\ Len(text) > 0
    /\ Len(drawPage) > 0

\* C7: the picker is opened in multi-selection mode, in the Pictures folder
\* of the home directory, with one filter whose pattern list is
\* '*.bmp;*.gif;*.jpg;*.jpeg;*.png;*.tif;*.tiff'.
C7_PickerSetup ==
    picker.opened =>
        /\ picker.multi
        /\ picker.dir = <<UrlPrefix>> \o HomeDir \o <<"Pictures">>
        /\ Len(picker.filters) = 1
        /\ picker.filters[1].pattern = ImageFilters[1].pattern

\* the shapes the current call inserted in iterations 1..n
InsertedShape(j) == drawPage[Len(drawPage0) + j]

\* C8: when inserting or resizing the k-th image raises, the exception leaves
\* the call, images 1..k-1 stay inserted and resized, the failed step is not
\* repeated and no later image is inserted.
C8_RaisePropagates ==
    raisedAt # 0 =>
        /\ pc = "ended"
        /\ exc # "None"
        /\ ret = "unset"
        /\ IsPrefix(steps, ExpectedSteps(NumImages))
        /\ 3 * (raisedAt - 1) <= Len(steps)
        /\ Len(steps) < 3 * raisedAt
        /\ GraphicsGained \in {raisedAt - 1, raisedAt}
        /\ \A j \in 1..(raisedAt - 1) :
              /\ InsertedShape(j).size = InsertedShape(j).actual
              /\ \E i \in 1..Len(text) : text[i] = [k |-> "img", id |-> InsertedShape(j).id]

\* the host raised in the second iteration, after the first image was done
C8_Witness ==
    /\ raisedAt = 2
    /\ exc = "HostError"
    /\ pc = "ended"
    /\ GraphicsGained >= 1
    /\ InsertedShape(1).size = ActualSizeOf(AllFiles[1])

\* C9: every call of trigger runs image_batch_import once, hands it nothing
\* of args, leaves the job object as it was and returns None.
C9_TriggerRunsImportOnce ==
    /\ imports = triggers
    /\ importArgs = << >>
    /\ jobCtx = "ctx"
    /\ ret \in {"unset", TriggerReturn}
    /\ (pc = "ended" /\ exc = "None") => ret = "None"

\* a second call, made with a non-empty args, has returned
C9_Witness ==
    /\ triggers = 2
    /\ trigArgs = <<"event">>
    /\ pc = "ended"
    /\ exc = "None"
    /\ ret = "None"

-----------------------------------------------------------------------------
(* easytools.Timer: the repeating timer *)

\* Variant of LoopContinues: the loop of TimerThread.run never looks at the
\* Event (`while True`)
LoopContinuesAlways(isSet) == TRUE

\* `while not self._event.wait(self._seconds)`: wait returns the Event's
\* flag, so the loop goes on exactly while the flag is not set
LoopContinues(isSet) == ~isSet

\* the thread a Timer.start would create: threads are numbered as started
NextThread == Cardinality({t \in Threads : tpc[t] # "unborn"}) + 1

\* Timer.start(name, seconds, macro): a new Event is stored under name, over
\* any Event stored there, and a thread with that Event is started
TimerStart(name) ==
    /\ spc.name = "none"
    /\ NextThread <= MaxThreads
    /\ events' = [events EXCEPT ![name] = NextThread]
    /\ onceReg' = [onceReg EXCEPT ![name] = 0]
    /\ tname' = [tname EXCEPT ![NextThread] = name]
    /\ tpc' = [tpc EXCEPT ![NextThread] = "waiting"]
    /\ UNCHANGED <<flag, calls, stopRet, lateCalls, spc>>
    /\ UNCHANGED <<opc, ofin, oname, ocalls, cancelled, cancelOut, stopOut>>
    /\ UNCHANGED <<importVars, otherVars>>

\* TimerThread.run: wait(seconds) times out with the Event not set
WaitTimeout(t) ==
    /\ tpc[t] = "waiting"
    /\ LoopContinues(flag[t])
    /\ calls < MaxCalls
    /\ tpc' = [tpc EXCEPT ![t] = "timedout"]
    /\ UNCHANGED <<events, flag, calls, stopRet, lateCalls, spc>>
    /\ UNCHANGED <<importVars, onceVars, otherVars>>

\* TimerThread.run: wait returns True, the loop ends and run returns
WaitSet(t) ==
    /\ tpc[t] = "waiting"
    /\ ~LoopContinues(flag[t])
    /\ tpc' = [tpc EXCEPT ![t] = "stopped"]
    /\ UNCHANGED <<events, flag, calls, stopRet, lateCalls, spc>>
    /\ UNCHANGED <<importVars, onceVars, otherVars>>

\* TimerThread.run: Macro.call(self._macro) starts after the timed out wait
MacroCall(t) ==
    /\ tpc[t] = "timedout"
    /\ tpc' = [tpc EXCEPT ![t] = "calling"]
    /\ calls' = calls + 1
    /\ lateCalls' = [lateCalls EXCEPT ![t] = IF stopRet[t] THEN @ + 1 ELSE @]
    /\ UNCHANGED <<events, flag, stopRet, spc>>
    /\ UNCHANGED <<importVars, onceVars, otherVars>>

\* Macro.call returns and the loop waits again
MacroReturn(t) ==
    /\ tpc[t] = "calling"
    /\ tpc' = [tpc EXCEPT ![t] = "waiting"]
    /\ UNCHANGED <<events, flag, calls, stopRet, lateCalls, spc>>
    /\ UNCHANGED <<importVars, onceVars, otherVars>>

\* Macro.call raises: run has no try/except, the thread ends
MacroRaise(t) ==
    /\ tpc[t] = "calling"
    /\ tpc' = [tpc EXCEPT ![t] = "dead"]
    /\ UNCHANGED <<events, flag, calls, stopRet, lateCalls, spc>>
    /\ UNCHANGED <<importVars, onceVars, otherVars>>

\* Timer.stop(name), first statement: _EVENTS[name].set()
StopSet(name) ==
    /\ spc.name = "none"
    /\ events[name] # 0
    /\ flag' = [flag EXCEPT ![events[name]] = TRUE]
    /\ spc' = [name |-> name, thread |-> events[name]]
    /\ UNCHANGED <<events, tpc, calls, stopRet, lateCalls>>
    /\ UNCHANGED <<importVars, onceVars, otherVars>>

\* Timer.stop(name), second statement and return: del _EVENTS[name]
StopDel ==
    /\ spc.name # "none"
    /\ events' = [events EXCEPT ![spc.name] = 0]
    /\ stopRet' = [stopRet EXCEPT ![spc.thread] = TRUE]
    /\ spc' = [name |-> "none", thread |-> 0]
    /\ UNCHANGED <<tpc, flag, calls, lateCalls>>
    /\ UNCHANGED <<importVars, onceVars, otherVars>>

TimerInit ==
    /\ ImportIdle
    /\ TimerIdle
    /\ OthersIdle
    /\ text = << >>
    /\ drawPage = << >>
    /\ text0 = text
    /\ drawPage0 = drawPage

TimerNext ==
    \/ \E name \in TimerNames : TimerStart(name)
    \/ \E name \in TimerNames : StopSet(name)
    \/ StopDel
    \/ \E t \in Threads : WaitTimeout(t)
    \/ \E t \in Threads : WaitSet(t)
    \/ \E t \in Threads : MacroCall(t)
    \/ \E t \in Threads : MacroReturn(t)
    \/ \E t \in Threads : MacroRaise(t)

TimerSpec == TimerInit /\ [][TimerNext]_vars

\* Every started thread is scheduled again and again, a macro that was
\* called comes back, and the caller of Timer.stop finishes the call
TimerFairness ==
    /\ WF_vars(StopDel)
    /\ \A t \in Threads :
          /\ WF_vars(WaitSet(t))
          /\ WF_vars(MacroCall(t))
          /\ WF_vars(MacroReturn(t) \/ MacroRaise(t))

TimerFairSpec == TimerSpec /\ TimerFairness

Terminated(t) == tpc[t] \in {"stopped", "dead"}

\* C10, as stated: once Timer.stop(name) has returned, the thread it stopped
\* starts no further macro invocation.
C10_NoCallAfterStop == \A t \in Threads : lateCalls[t] = 0

\* C10, amended: once Timer.stop(name) has returned, the thread whose Event
\* it set starts at most one further macro invocation (the one whose wait had
\* timed out before the Event was set) and eventually terminates.
C10_AtMostOneLateCall ==
    /\ [](\A t \in Threads : lateCalls[t] <= 1)
    /\ \A t \in Threads : stopRet[t] ~> Terminated(t)

\* a thread ended after a stop that returned while its macro call was pending
C10_Witness ==
    \E t \in Threads : stopRet[t] /\ lateCalls[t] = 1 /\ tpc[t] = "stopped"

-----------------------------------------------------------------------------
(* Timer.exists, Timer.once and Timer.cancel: the one-shot timers *)

Onces == 1..MaxOnce

\* Timer.exists(name): `name in _EVENTS`, whatever object is stored there
Exists(name) == events[name] # 0 \/ onceReg[name] # 0

\* threading.Timer.cancel leaves the `finished` Event as it was
CancelSetsFinishedNot(fin) == fin

\* `_EVENTS[name].cancel()` on a threading.Timer: its `finished` Event is set
CancelSetsFinished(fin) == TRUE

\* what `_EVENTS[name]` holds for Timer.cancel: a threading.Timer (it has
\* cancel), a threading.Event (it has none), or no entry
Registered(name) ==
    IF onceReg[name] # 0 THEN "timer"
    ELSE IF events[name] # 0 THEN "event" ELSE "none"

\* what the body of Timer.cancel's `if name in _EVENTS` raises: calling
\* `cancel` on a threading.Event is an AttributeError; a name that is not
\* registered goes to the else branch
CancelExc(found) == IF found = "event" THEN "AttributeError" ELSE "None"

\* `except Exception as e: error(e)`: nothing that is an Exception leaves
\* Timer.cancel
CancelRaises(e) == e \notin {"None", "AttributeError", "KeyError"}

\* the one-shot timer a Timer.once would create: numbered as started
NextOnce == Cardinality({o \in Onces : opc[o] # "unborn"}) + 1

\* Timer.once(name, seconds, macro): a threading.Timer is stored under name,
\* over whatever was stored there, and started
TimerOnce(name) ==
    /\ spc.name = "none"
    /\ NextOnce <= MaxOnce
    /\ onceReg' = [onceReg EXCEPT ![name] = NextOnce]
    /\ events' = [events EXCEPT ![name] = 0]
    /\ opc' = [opc EXCEPT ![NextOnce] = "waiting"]
    /\ oname' = [oname EXCEPT ![NextOnce] = name]
    /\ UNCHANGED <<tpc, flag, calls, stopRet, lateCalls, spc>>
    /\ UNCHANGED <<ofin, tname, ocalls, cancelled, cancelOut, stopOut>>
    /\ UNCHANGED <<importVars, otherVars>>

\* the timer's thread: the interval passes with `finished` not set
OnceElapse(o) ==
    /\ opc[o] = "waiting"
    /\ ~ofin[o]
    /\ opc' = [opc EXCEPT ![o] = "elapsed"]
    /\ UNCHANGED <<onceReg, ofin, tname, oname, ocalls, cancelled, cancelOut,
                   stopOut>>
    /\ UNCHANGED <<importVars, timerVars, otherVars>>

\* the timer's thread: `finished` was set while it waited, nothing is called
OnceSkip(o) ==
    /\ opc[o] = "waiting"
    /\ ofin[o]
    /\ opc' = [opc EXCEPT ![o] = "skipped"]
    /\ UNCHANGED <<onceReg, ofin, tname, oname, ocalls, cancelled, cancelOut,
                   stopOut>>
    /\ UNCHANGED <<importVars, timerVars, otherVars>>

\* the timer's thread: Macro.call(macro) starts
OnceFire(o) ==
    /\ opc[o] = "elapsed"
    /\ opc' = [opc EXCEPT ![o] = "calling"]
    /\ ocalls' = [ocalls EXCEPT ![o] = @ + 1]
    /\ UNCHANGED <<onceReg, ofin, tname, oname, cancelled, cancelOut, stopOut>>
    /\ UNCHANGED <<importVars, timerVars, otherVars>>

\* Macro.call returns and the timer's thread ends; _EVENTS is not touched
OnceDone(o) ==
    /\ opc[o] = "calling"
    /\ opc' = [opc EXCEPT ![o] = "done"]
    /\ ofin' = [ofin EXCEPT ![o] = TRUE]
    /\ UNCHANGED <<onceReg, tname, oname, ocalls, cancelled, cancelOut, stopOut>>
    /\ UNCHANGED <<importVars, timerVars, otherVars>>

\* Timer.cancel(name): a registered threading.Timer is cancelled and its
\* entry deleted; on a threading.Event `cancel` is missing, the
\* AttributeError is caught and logged and the entry stays; a name that is
\* not registered is only logged
TimerCancel(name) ==
    /\ spc.name = "none"
    /\ cancelOut' = [found |-> Registered(name),
                     raised |-> CancelRaises(CancelExc(Registered(name)))]
    /\ IF Registered(name) = "timer"
       THEN LET o == onceReg[name] IN
            /\ ofin' = [ofin EXCEPT ![o] = CancelSetsFinished(@)]
            /\ onceReg' = [onceReg EXCEPT ![name] = 0]
            /\ cancelled' = [cancelled EXCEPT
                                ![o] = @ \/ (opc[o] = "waiting" /\ ~ofin[o])]
       ELSE UNCHANGED <<ofin, onceReg, cancelled>>
    /\ UNCHANGED <<opc, tname, oname, ocalls, stopOut>>
    /\ UNCHANGED <<importVars, timerVars, otherVars>>

\* Variant of StopReachesDel: the entry is deleted whatever `set` did
StopReachesDelAlways(e) == TRUE

\* Timer.stop has no try: `del _EVENTS[name]` runs only when the statement
\* before it, `_EVENTS[name].set()`, raised nothing
StopReachesDel(e) == e = "None"

\* what `_EVENTS[name].set()` raises: the lookup of a name that is not
\* registered is a KeyError, and a threading.Timer has no `set`
StopExc(found) ==
    IF found = "none" THEN "KeyError"
    ELSE IF found = "timer" THEN "AttributeError" ELSE "None"

\* Timer.stop(name) where _EVENTS holds no threading.Event under name: the
\* first statement raises and the exception leaves Timer.stop
StopRaise(name) ==
    /\ spc.name = "none"
    /\ Registered(name) # "event"
    /\ stopOut' = [found |-> Registered(name),
                   exc |-> StopExc(Registered(name)),
                   tick |-> ~stopOut.tick]
    /\ onceReg' = IF StopReachesDel(StopExc(Registered(name)))
                  THEN [onceReg EXCEPT ![name] = 0]
                  ELSE onceReg
    /\ UNCHANGED <<opc, ofin, tname, oname, ocalls, cancelled, cancelOut>>
    /\ UNCHANGED <<importVars, timerVars, otherVars>>

OnceNext ==
    \/ \E name \in TimerNames : StopRaise(name)
    \/ \E name \in TimerNames : TimerOnce(name)
    \/ \E name \in TimerNames : TimerCancel(name)
    \/ \E o \in Onces : OnceElapse(o)
    \/ \E o \in Onces : OnceSkip(o)
    \/ \E o \in Onces : OnceFire(o)
    \/ \E o \in Onces : OnceDone(o)

\* the calls of Timer.start and Timer.stop; the steps of the repeating
\* threads, which touch neither _EVENTS nor a one-shot timer, are left to
\* TimerSpec
RegistryNext ==
    \/ \E name \in TimerNames : TimerStart(name)
    \/ \E name \in TimerNames : StopSet(name)
    \/ StopDel

\* the registry of the Timer class: repeating and one-shot timers together
OnceSpec == TimerInit /\ [][RegistryNext \/ OnceNext]_vars

\* a repeating timer started under name and not yet told to stop
ActiveRepeating(name) == \E t \in Threads : tname[t] = name /\ ~flag[t]

\* a one-shot timer started under name, neither cancelled nor done firing
ActiveOnce(name) ==
    \E o \in Onces : /\ oname[o] = name
                     /\ opc[o] \in {"waiting", "elapsed", "calling"}
                     /\ ~ofin[o]

\* C11, as stated: between calls of the Timer class, Timer.exists(name) is
\* true exactly when a repeating timer started under name has not been
\* stopped or a one-shot timer started under name has neither fired nor been
\* cancelled.
C11_ExistsIffActive ==
    spc.name = "none" =>
        \A name \in TimerNames :
            Exists(name) <=> (ActiveRepeating(name) \/ ActiveOnce(name))

-----------------------------------------------------------------------------
(* The registry and Timer.stop on a name that holds no Event *)

\* a repeating timer thread that was started and whose Event is not set
NotToldToStop(t) == tpc[t] # "unborn" /\ ~flag[t]

\* C21, as stated: between and during the calls of the Timer class, every
\* repeating timer thread that has not been told to stop has its Event
\* registered in _EVENTS under the name it was started with.
C21_RunningIsRegistered ==
    \A t \in Threads : NotToldToStop(t) => events[tname[t]] = t

\* C23: a Timer.stop(name) on a name under which no Event is registered (no
\* entry, or the threading.Timer of Timer.once) raises, and leaves _EVENTS
\* and every repeating and one-shot timer as they were.
C23_StopOfOtherNameRaises ==
    [][stopOut'.tick # stopOut.tick =>
         /\ stopOut'.found \in {"none", "timer"}
         /\ stopOut'.exc \in {"KeyError", "AttributeError"}
         /\ UNCHANGED <<timerVars, onceReg, opc, ofin, ocalls, cancelled>>]_vars

\* the last Timer.stop was given the name of a one-shot timer that is still
\* waiting and still registered, while a repeating timer runs
C23_Witness ==
    /\ stopOut.found = "timer"
    /\ stopOut.exc = "AttributeError"
    /\ \E o \in Onces : opc[o] = "waiting" /\ ~ofin[o] /\ onceReg[oname[o]] = o
    /\ \E t \in Threads : NotToldToStop(t)

-----------------------------------------------------------------------------
(* Email.send and the thread running Email._send_email *)

\* a message: its place in the sequence given and whether the MIME message
\* can be built from it ('to' and 'subject' present, attachments readable)
Message(i, valid) == [id |-> i, valid |-> valid]

\* what Email.send can be given: one dict, or a tuple or list of dicts
EmailInput(kind, n, valid) ==
    IF kind = "dict"
    THEN [kind |-> kind, val |-> Message(1, valid[1])]
    ELSE [kind |-> kind, val |-> [i \in 1..n |-> Message(i, valid[i])]]

\* `if isinstance(messages, dict): messages = (messages,)`
AsMessages(input) == IF input.kind = "dict" THEN <<input.val>> ELSE input.val

\* `for msg in messages`: the i-th iteration takes the i-th message
MsgAt(msgs, i) == msgs[i]

\* how SmtpServer._login can end: logged in; SMTPAuthenticationError with
\* code 535; SMTPAuthenticationError with another code; SMTPException;
\* another Exception inside the try (no connection, no 'password'); KeyError
\* for 'server', 'port' or 'user', which are read before the try
LoginOutcomes == {"ok", "auth535", "authOther", "smtp", "exception", "config"}

\* SmtpServer._error after _login
LoginError(outcome) ==
    CASE outcome = "ok" -> ""
      [] outcome = "auth535" -> "Incorrect user or password"
      [] outcome = "authOther" -> ""
      [] outcome = "smtp" -> "str(e)"
      [] outcome = "exception" -> "str(e)"
      [] OTHER -> ""

\* Email.send does not join the thread it starts
SendMayReturn(threadAt) == TRUE

Did(op, i, txt) == [op |-> op, id |-> i, txt |-> txt]

\* Email.send(server, messages) up to `t.start()`
EmailSend ==
    /\ mpc \in {"idle", "returned"}
    /\ epc \in {"none", "ended", "died"}
    /\ \E kind \in {"dict", "seq"}, n \in 0..MaxMsgs,
          valid \in [1..MaxMsgs -> BOOLEAN] :
          emsgs' = AsMessages(EmailInput(kind, n, valid))
    /\ mpc' = "started"
    /\ epc' = "spawned"
    /\ eidx' = 0
    /\ eerror' = ""
    /\ elog' = << >>
    /\ UNCHANGED exceptEmail

\* Email.send: `return`
EmailSendReturn ==
    /\ mpc = "started"
    /\ SendMayReturn(epc)
    /\ mpc' = "returned"
    /\ UNCHANGED <<emsgs, epc, eidx, eerror, elog>>
    /\ UNCHANGED exceptEmail

\* `with cls.SmtpServer(server) as server`: __init__ runs _login once
Login ==
    /\ epc = "spawned"
    /\ \E outcome \in LoginOutcomes :
          /\ elog' = Append(elog, Did("login", 0, outcome))
          /\ eerror' = LoginError(outcome)
          /\ epc' = CASE outcome = "ok" -> "sending"
                      [] outcome = "config" -> "died"
                      [] OTHER -> "failed"
    /\ eidx' = 1
    /\ UNCHANGED <<emsgs, mpc>>
    /\ UNCHANGED exceptEmail

\* `else: log.error(server.error)`
LogError ==
    /\ epc = "failed"
    /\ elog' = Append(elog, Did("log", 0, eerror))
    /\ epc' = "exit"
    /\ UNCHANGED <<emsgs, mpc, eidx, eerror>>
    /\ UNCHANGED exceptEmail

\* one iteration of `for msg in messages: server.send(msg)`: the MIME
\* message is built outside the try, so an exception there leaves send and
\* the loop; an exception of sendmail or save_message is kept in _error
ServerSend ==
    /\ epc = "sending"
    /\ eidx <= Len(emsgs)
    /\ LET msg == MsgAt(emsgs, eidx) IN
       IF ~msg.valid
       THEN /\ elog' = Append(elog, Did("raise", msg.id, "KeyError"))
            /\ epc' = "exitraise"
            /\ UNCHANGED <<eidx, eerror>>
       ELSE \E smtpOk \in BOOLEAN :
            /\ elog' = Append(elog, Did("send", msg.id,
                                        IF smtpOk THEN "ok" ELSE "str(e)"))
            /\ eerror' = IF smtpOk THEN eerror ELSE "str(e)"
            /\ eidx' = eidx + 1
            /\ UNCHANGED epc
    /\ UNCHANGED <<emsgs, mpc>>
    /\ UNCHANGED exceptEmail

\* the loop is through
LoopEnd ==
    /\ epc = "sending"
    /\ eidx > Len(emsgs)
    /\ epc' = "exit"
    /\ UNCHANGED <<emsgs, mpc, eidx, eerror, elog>>
    /\ UNCHANGED exceptEmail

\* SmtpServer.__exit__: close() is called, an exception of quit is dropped;
\* an exception that left the loop goes on and ends the thread
Exit ==
    /\ epc \in {"exit", "exitraise"}
    /\ elog' = Append(elog, Did("close", 0, ""))
    /\ epc' = IF epc = "exit" THEN "ended" ELSE "died"
    /\ UNCHANGED <<emsgs, mpc, eidx, eerror>>
    /\ UNCHANGED exceptEmail

EmailInit == TimerInit

EmailNext ==
    \/ EmailSend
    \/ EmailSendReturn
    \/ Login
    \/ LogError
    \/ ServerSend
    \/ LoopEnd
    \/ Exit

EmailSpec == EmailInit /\ [][EmailNext]_vars

ThreadOver == epc \in {"ended", "died"}
LoggedIn == Len(elog) > 0 /\ elog[1] = Did("login", 0, "ok")
Ops(op) == {i \in 1..Len(elog) : elog[i].op = op}
\* the ids of the messages handed to sendmail, in the order of the calls
RECURSIVE SentIds(_)
SentIds(log) ==
    IF log = << >> THEN << >>
    ELSE IF Head(log).op = "send" THEN <<Head(log).id>> \o SentIds(Tail(log))
    ELSE SentIds(Tail(log))

\* C13, as stated: Email.send can return whatever the thread is doing; the
\* thread logs in once, before anything else; after a login that succeeded
\* it has, when it is over, sent the messages 1..n in that order and then
\* closed the connection once, as its last step.
C13_SendsAllInOrder ==
    /\ mpc = "started" => ENABLED EmailSendReturn
    /\ Cardinality(Ops("login")) <= 1
    /\ elog # << >> => elog[1].op = "login"
    /\ (ThreadOver /\ LoggedIn) =>
          /\ SentIds(elog) = [i \in 1..Len(emsgs) |-> i]
          /\ Ops("close") = {Len(elog)}

\* C20, as stated: when the thread is over, after a failed login nothing
\* was sent, the error was logged and close was called; after a login that
\* succeeded every message was attempted, whatever happened to the ones
\* before it; close was called exactly once, as the last step, in every
\* case.
C20_FailuresContained ==
    ThreadOver =>
        /\ ~LoggedIn => /\ SentIds(elog) = << >>
                        /\ Ops("log") # {}
        /\ LoggedIn => /\ SentIds(elog) = [i \in 1..Len(emsgs) |-> i]
                       /\ Ops("raise") = {}
        /\ Ops("close") = {Len(elog)}

-----------------------------------------------------------------------------
(* set_app_config *)

\* values of a configuration key, written as Python literals
ConfigValues == {"''", "0", "False", "'x'", "1", "True"}

\* `current_value` in a condition: the empty string, zero and False are false
Truthy(v) == v \notin {"''", "0", "False"}

\* the call of the host that raises in the try block, if one does, and the
\* one that raises in the except block
FailPoints == {"none", "get", "set", "commit"}
RestoreFailPoints == {"none", "set", "commit"}

\* set_app_config(node_name, key, new_value) on a key holding cur:
\* how it ends and what the key holds then
SetAppConfigResult(cur, new, failAt, restoreFailAt) ==
    LET hasByName == cur # "absent"
        getOk == hasByName /\ failAt # "get"
        current_value == IF getOk THEN cur ELSE "''"
        setOk == getOk /\ failAt # "set"
        commitOk == setOk /\ failAt # "commit"
        afterTry == IF setOk THEN new ELSE cur
        done == [set |-> setOk, committed |-> commitOk]
    IN  IF commitOk
        THEN [ret |-> "True", value |-> new] @@ done
        ELSE IF hasByName /\ Truthy(current_value)
        THEN IF restoreFailAt = "set"
             THEN [ret |-> "raised", value |-> afterTry] @@ done
             ELSE IF restoreFailAt = "commit"
             THEN [ret |-> "raised", value |-> current_value] @@ done
             ELSE [ret |-> "False", value |-> current_value] @@ done
        ELSE [ret |-> "False", value |-> afterTry] @@ done

SetAppConfig ==
    \E new \in ConfigValues, failAt \in FailPoints,
       restoreFailAt \in RestoreFailPoints :
        LET r == SetAppConfigResult(cfg, new, failAt, restoreFailAt)
        IN  /\ cfg' = r.value
            /\ cfgRet' = r.ret
            /\ cfgCall' = [prev |-> cfg, new |-> new, set |-> r.set,
                           committed |-> r.committed]
            /\ UNCHANGED exceptApp

AppInit ==
    /\ ImportIdle
    /\ TimerIdle
    /\ EmailIdle
    /\ text = << >>
    /\ drawPage = << >>
    /\ text0 = text
    /\ drawPage0 = drawPage
    /\ CalcIdle
    /\ ConfIdle
    /\ PathsIdle
    /\ WrapIdle
    /\ StreamIdle
    /\ cfg \in ConfigValues \cup {"absent"}
    /\ cfgRet = "none"
    /\ cfgCall = [prev |-> cfg, new |-> cfg, set |-> FALSE,
                  committed |-> FALSE]

AppSpec == AppInit /\ [][SetAppConfig]_vars

\* C14, as stated: set_app_config returns True exactly when the new value
\* was set and committed, and whenever it returns False the key holds the
\* value it held before the call, whatever that value was.
C14_FalseMeansUnchanged ==
    cfgRet # "none" =>
        /\ cfgRet = "True" <=> (cfgCall.set /\ cfgCall.committed)
        /\ cfgRet = "False" => cfg = cfgCall.prev

-----------------------------------------------------------------------------
(* LOCalc.sort and LOCalc.move *)

\* code points of the characters sheet names are made of here
Ord == ("1" :> 49) @@ ("B" :> 66) @@ ("a" :> 97) @@ ("c" :> 99)

SheetNames == {<<"B">>, <<"a">>, <<"a", "1">>, <<"c">>}

\* str < str: by code point, a proper prefix first
RECURSIVE StrLess(_, _)
StrLess(a, b) ==
    IF b = << >> THEN FALSE
    ELSE IF a = << >> THEN TRUE
    ELSE IF Ord[Head(a)] # Ord[Head(b)] THEN Ord[Head(a)] < Ord[Head(b)]
    ELSE StrLess(Tail(a), Tail(b))

\* names[1..k] with x put in before the first name that is greater
RECURSIVE InsertSorted(_, _)
InsertSorted(names, x) ==
    IF names = << >> THEN <<x>>
    ELSE IF StrLess(x, Head(names)) THEN <<x>> \o names
    ELSE <<Head(names)>> \o InsertSorted(Tail(names), x)

RECURSIVE SortedAsc(_)
SortedAsc(names) ==
    IF names = << >> THEN << >>
    ELSE InsertSorted(SortedAsc(Tail(names)), Head(names))

Reversed(names) == [i \in 1..Len(names) |-> names[Len(names) + 1 - i]]

\* sorted(names) whatever `reverse` is
SortedIgnoringReverse(names, reverse) == SortedAsc(names)

\* sorted(self.names, reverse=reverse), for names that are all different
Sorted(names, reverse) ==
    IF reverse THEN Reversed(SortedAsc(names)) ELSE SortedAsc(names)

\* position of name in the sheets, counted from 0
IndexOf(shs, name) == (CHOOSE i \in 1..Len(shs) : shs[i] = name) - 1

\* XSpreadsheets.moveByName(name, index): the sheet is taken out and put in
\* before the sheet that was at index; moved towards the end it lands one
\* place earlier
MoveByName(shs, name, index) ==
    LET src == IndexOf(shs, name)
        dst == IF src < index THEN index - 1 ELSE index
        rest == SelectSeq(shs, LAMBDA n : n # name)
    IN  SubSeq(rest, 1, dst) \o <<name>> \o SubSeq(rest, dst + 1, Len(rest))

\* LOCalc.move(sheet, pos): a negative pos stands for the end
Move(shs, name, pos) ==
    MoveByName(shs, name, IF pos < 0 THEN Len(shs) ELSE pos)

\* `for i, n in enumerate(names): self.move(n, i)` from the i-th name on
RECURSIVE MoveAll(_, _, _)
MoveAll(shs, names, i) ==
    IF i >= Len(names) THEN shs
    ELSE MoveAll(Move(shs, names[i + 1], i), names, i + 1)

\* LOCalc.sort(reverse)
LOCalcSort ==
    \E reverse \in BOOLEAN :
        /\ sheets' = MoveAll(sheets, Sorted(sheets, reverse), 0)
        /\ sheets0' = sheets
        /\ sortRev' = IF reverse THEN "True" ELSE "False"
        /\ UNCHANGED exceptCalc

\* a document has at least one sheet and no two sheets whose names differ
\* in case only
CalcInit ==
    /\ ImportIdle
    /\ TimerIdle
    /\ EmailIdle
    /\ AppIdle
    /\ ConfIdle
    /\ PathsIdle
    /\ WrapIdle
    /\ StreamIdle
    /\ text = << >>
    /\ drawPage = << >>
    /\ text0 = text
    /\ drawPage0 = drawPage
    /\ \E n \in 1..MaxSheets : \E shs \in [1..n -> SheetNames] :
          /\ \A i, j \in 1..n : i # j => Lower(shs[i]) # Lower(shs[j])
          /\ sheets = shs
    /\ sheets0 = sheets
    /\ sortRev = "none"

CalcSpec == CalcInit /\ [][LOCalcSort]_vars

Range(f) == {f[i] : i \in DOMAIN f}

\* C15: after LOCalc.sort(reverse) the document holds the same sheets as
\* before, and their names go up with the position (down when reverse is
\* true), whatever the order was.
C15_SortOrdersSheets ==
    sortRev # "none" =>
        /\ Len(sheets) = Len(sheets0)
        /\ Range(sheets) = Range(sheets0)
        /\ \A i, j \in 1..Len(sheets) :
              i < j => IF sortRev = "True"
                       THEN StrLess(sheets[j], sheets[i])
                       ELSE StrLess(sheets[i], sheets[j])

\* a reverse sort that had to move sheets of a full document
C15_Witness ==
    /\ sortRev = "True"
    /\ Len(sheets) = MaxSheets
    /\ sheets # sheets0
    /\ sheets0 # Reversed(sheets)

-----------------------------------------------------------------------------
(* Config.set and Config.get over Paths.save_json and Paths.read_json *)

\* Python values that are not dicts: 1, 'a', (1, 2) and [1, 2]
FlatValues == {[t |-> "int", v |-> <<"1">>], [t |-> "str", v |-> <<"a">>],
               [t |-> "tuple", v |-> <<"1", "2">>],
               [t |-> "list", v |-> <<"1", "2">>]}

\* a value as Config.set takes it and Config.get returns it
Top(e) == [t |-> e.t, v |-> e.v, d |-> NoEntries]
EmptyDict == [t |-> "dict", v |-> << >>, d |-> NoEntries]

\* json.dumps: tuples and lists both become arrays
JsonType(t) ==
    CASE t = "int" -> "number"
      [] t = "str" -> "string"
      [] t = "tuple" -> "array"
      [] t = "list" -> "array"
      [] t = "dict" -> "object"
      [] OTHER -> "absent"

\* json.loads: an array becomes a list
PyType(j) ==
    CASE j = "number" -> "int"
      [] j = "string" -> "str"
      [] j = "array" -> "list"
      [] j = "object" -> "dict"
      [] OTHER -> "absent"

\* Paths.save_json(path, data): the text written
JsonDumps(data) ==
    [j |-> JsonType(data.t), v |-> data.v,
     d |-> [k \in Keys |-> [j |-> JsonType(data.d[k].t), v |-> data.d[k].v]]]

\* Paths.read_json(path): the value read
JsonLoads(txt) ==
    [t |-> PyType(txt.j), v |-> txt.v,
     d |-> [k \in Keys |-> [t |-> PyType(txt.d[k].j), v |-> txt.d[k].v]]]

\* Config.get(prefix, key) on the files fs: {} without a file; with a key
\* that the data holds the value under it, else the whole data; `key in
\* data` raises on a number
ConfigGet(fs, prefix, key) ==
    IF fs[prefix].j = "missing" THEN [exc |-> "None", val |-> EmptyDict]
    ELSE LET data == JsonLoads(fs[prefix]) IN
         IF key = "" THEN [exc |-> "None", val |-> data]
         ELSE IF data.t = "int" THEN [exc |-> "TypeError", val |-> data]
         ELSE IF data.t = "dict" /\ data.d[key] # Absent
              THEN [exc |-> "None", val |-> Top(data.d[key])]
              ELSE [exc |-> "None", val |-> data]

\* Config.set with a key starts from an empty dict
DataForKeyEmpty(fs, prefix) == EmptyDict

\* `data = cls.get(prefix)` in Config.set with a key
DataForKey(fs, prefix) == ConfigGet(fs, prefix, "").val

\* Config.set(prefix, values, key): with a key the stored data is read,
\* `data[key] = values` (a TypeError when the data is no dict) and the data
\* is saved; without a key the values are saved
ConfigSet ==
    \E prefix \in Prefixes, key \in Keys \cup {""},
       values \in {Top(e) : e \in FlatValues} \cup {EmptyDict} :
        LET old == DataForKey(files, prefix)
            raises == key # "" /\ old.t # "dict"
            data == IF key = "" THEN values
                    ELSE [old EXCEPT !.d[key] = [t |-> values.t,
                                                 v |-> values.v]]
        IN  /\ key # "" => values.t # "dict"
            /\ files' = IF raises THEN files
                        ELSE [files EXCEPT ![prefix] = JsonDumps(data)]
            /\ wasSet' = IF raises THEN wasSet ELSE wasSet \cup {prefix}
            /\ lastSet' = [prefix |-> prefix, key |-> key, val |-> values,
                           exc |-> IF raises THEN "TypeError" ELSE "None",
                           before |-> files[prefix]]
            /\ UNCHANGED exceptConf

ConfInit == TimerInit

ConfSpec == ConfInit /\ [][ConfigSet]_vars

\* the files as they were before the last Config.set
FilesBefore == [files EXCEPT ![lastSet.prefix] = lastSet.before]
KeyedSetDone ==
    lastSet.prefix # "none" /\ lastSet.key # "" /\ lastSet.exc = "None"

\* every other key stored under the prefix has kept its value, and a prefix
\* that was never set gives an empty dict
OthersKeptAndUnsetEmpty ==
    /\ KeyedSetDone =>
          \A k \in Keys \ {lastSet.key} :
              lastSet.before.d[k] # JAbsent =>
                  ConfigGet(files, lastSet.prefix, k) =
                      ConfigGet(FilesBefore, lastSet.prefix, k)
    /\ \A p \in Prefixes \ wasSet, k \in Keys \cup {""} :
          ConfigGet(files, p, k) = [exc |-> "None", val |-> EmptyDict]

\* C16, as stated: after Config.set(prefix, v, key), Config.get(prefix, key)
\* returns v, every other key stored under the prefix has kept its value,
\* and Config.get for a prefix never set returns an empty dict.
C16_SetThenGet ==
    /\ KeyedSetDone =>
          ConfigGet(files, lastSet.prefix, lastSet.key).val = lastSet.val
    /\ OthersKeptAndUnsetEmpty

\* C16, amended: the same for every v that JSON gives back as it was (a
\* tuple comes back as a list).
C16_SetThenGetJson ==
    /\ (KeyedSetDone /\ lastSet.val.t # "tuple") =>
          ConfigGet(files, lastSet.prefix, lastSet.key).val = lastSet.val
    /\ (KeyedSetDone /\ lastSet.val.t = "tuple") =>
          ConfigGet(files, lastSet.prefix, lastSet.key).val =
              [lastSet.val EXCEPT !.t = "list"]
    /\ OthersKeptAndUnsetEmpty

\* a list was stored under one key of a prefix that held another key, and
\* the other prefix was never set
C16_Witness ==
    /\ KeyedSetDone
    /\ lastSet.val.t = "list"
    /\ \E k \in Keys \ {lastSet.key} : lastSet.before.d[k] # JAbsent
    /\ Prefixes \ wasSet # {}

-----------------------------------------------------------------------------
(* Paths.get for every way of calling it *)

\* directories and filter tuples Paths.get is called with
InitDirs == {PicturesDir, <<"~">>, <<"/", "tmp">>}
TextFilter == [title |-> <<"T", "e", "x", "t">>, pattern |-> <<"T", "X", "T">>]
FilterTuples == {<< >>, ImageFilters, <<TextFilter>>,
                 ImageFilters \o <<TextFilter>>}

\* what the user can select: files of the picker, none twice, in any order;
\* one file at most when the picker is not in multi-selection mode
Selections(multiple) ==
    {fs \in UNION {[1..n -> Range(AllFiles)] : n \in 0..MaxFiles} :
        /\ \A i, j \in 1..Len(fs) : i # j => fs[i] # fs[j]
        /\ ~multiple => Len(fs) <= 1}

\* Paths.get(init_dir, filters, multiple) and the user's answer
PathsGetCall ==
    \E init_dir \in InitDirs, filters \in FilterTuples, multiple \in BOOLEAN,
       ok \in BOOLEAN :
        \E fs \in Selections(multiple) :
            /\ ~ok => fs = << >>
            /\ got' = PathsGet(init_dir, filters, multiple,
                               [ok |-> ok, files |-> fs])
            /\ UNCHANGED exceptPaths

PathsInitState == TimerInit

PathsSpec == PathsInitState /\ [][PathsGetCall]_vars

\* the path the picker's URL stands for: the URL without its scheme
PathOfUrl(u) == SubSeq(u, 2, Len(u))

\* C17: Paths.get returns the list of the selected paths in the picker's
\* order when multiple is true, the first selected path when multiple is
\* false and a path was selected, and the empty string when the dialog was
\* cancelled, in both modes.
C17_PathsGetResult ==
    got.opened =>
        LET sel == got.answer.files IN
        /\ (got.answer.ok /\ got.multi) =>
              got.result = [exc |-> "None", kind |-> "list",
                            val |-> [i \in 1..Len(sel) |-> PathOfUrl(sel[i])]]
        /\ (got.answer.ok /\ ~got.multi /\ Len(sel) > 0) =>
              got.result = [exc |-> "None", kind |-> "str",
                            val |-> PathOfUrl(sel[1])]
        /\ ~got.answer.ok =>
              got.result = [exc |-> "None", kind |-> "str", val |-> << >>]

\* every file was selected, in an order that is not the one of AllFiles, and
\* came back as a list
C17_Witness ==
    /\ got.opened /\ got.answer.ok /\ got.multi
    /\ got.result.kind = "list"
    /\ Len(got.result.val) = MaxFiles
    /\ got.answer.files # AllFiles

-----------------------------------------------------------------------------
(* catch_exception *)

\* positional and keyword arguments of a call
ArgTuples == UNION {[1..n -> {"x", "y"}] : n \in 0..MaxArgs}
KwargSets == SUBSET {[name |-> "a", val |-> "x"], [name |-> "b", val |-> "y"]}

\* how the wrapped function f ends: it returns, or raises one of these
Outcomes == {"returns", "ValueError", "KeyError", "KeyboardInterrupt"}

\* exceptions that are instances of Exception; KeyboardInterrupt is a
\* BaseException only
IsException(e) == e \in {"ValueError", "KeyError"}

\* a try without the except clause
CatchesNothing(e) == FALSE

\* `except Exception as e`
Catches(e) == IsException(e)

\* f(*args, **kwargs): what f is called with
Received(args, kwargs) == [args |-> args, kwargs |-> kwargs]

\* the value f returns when it returns: here what it was called with
ResultOf(received) == [kind |-> "value", val |-> received]

\* func(*args, **kwargs), the function catch_exception returns for f
Func(args, kwargs, outcome, win) ==
    LET received == Received(args, kwargs)
        raised == outcome # "returns"
        caught == raised /\ Catches(outcome)
    IN  [called |-> TRUE, args |-> args, kwargs |-> kwargs,
         outcome |-> outcome, received |-> received,
         escaped |-> IF raised /\ ~caught THEN outcome ELSE "None",
         ret |-> IF raised THEN [kind |-> "None", val |-> NoCall]
                 ELSE ResultOf(received),
         logged |-> caught,
         msgbox |-> caught /\ win]

WrappedCall ==
    \E args \in ArgTuples, kwargs \in KwargSets, outcome \in Outcomes :
        /\ wcall' = Func(args, kwargs, outcome, isWin)
        /\ UNCHANGED isWin
        /\ UNCHANGED exceptWrap

WrapInit ==
    /\ ImportIdle
    /\ TimerIdle
    /\ EmailIdle
    /\ AppIdle
    /\ CalcIdle
    /\ ConfIdle
    /\ PathsIdle
    /\ StreamIdle
    /\ text = << >>
    /\ drawPage = << >>
    /\ text0 = text
    /\ drawPage0 = drawPage
    /\ isWin \in BOOLEAN
    /\ wcall = [called |-> FALSE, args |-> << >>, kwargs |-> {},
                outcome |-> "none", received |-> NoCall, escaped |-> "None",
                ret |-> [kind |-> "None", val |-> NoCall], logged |-> FALSE,
                msgbox |-> FALSE]

WrapSpec == WrapInit /\ [][WrappedCall]_vars

-----------------------------------------------------------------------------
(* The text flow after the import *)

\* where the image of the j-th shape the current call inserted is in the text
ImagePos(j) ==
    CHOOSE i \in 1..Len(text) : text[i] = [k |-> "img", id |-> InsertedShape(j).id]

\* C19: when a call has run to its end, the images it inserted are in the
\* text in the order of the picker's files, each directly followed by two
\* paragraph breaks, and each later image comes after the breaks of the
\* earlier one.
C19_ImagesInPickerOrder ==
    (picker.opened /\ EndedByItself) =>
        \A j \in 1..GraphicsGained :
            /\ InsertedShape(j).url = PickedFiles[j]
            /\ \E i \in 1..Len(text) :
                  text[i] = [k |-> "img", id |-> InsertedShape(j).id]
            /\ ImagePos(j) + 2 <= Len(text)
            /\ text[ImagePos(j) + 1] = Break
            /\ text[ImagePos(j) + 2] = Break
            /\ j < GraphicsGained => ImagePos(j + 1) > ImagePos(j) + 2

\* a call has ended after inserting every picked file into a text that was
\* not empty
C19_Witness ==
    /\ picker.opened /\ EndedByItself
    /\ GraphicsGained = MaxFiles
    /\ Len(text0) > 0

-----------------------------------------------------------------------------
(* IOStream.OutputStream under LODocument.to_pdf and LODocument.export *)

ByteValues == {0, 255}

\* the values of `seq.value` the host passes to writeBytes, b'' among them
Chunks == UNION {[1..n -> ByteValues] : n \in 0..MaxChunk}

ExportMethods == {"to_pdf", "export"}
ExportPaths == {"", "/tmp/out"}

\* OutputStream.writeBytes(seq): `if seq.value: self._buffer = seq.value`
WriteBytesBuffer(buf, seq) == IF seq # << >> THEN seq ELSE buf

\* the `except Exception as e` of the two methods: export calls log.error;
\* to_pdf calls `error`, a name easydoc.py neither defines nor imports, so
\* a NameError leaves to_pdf
HandlerRaises(method) == method = "to_pdf"

\* to_pdf(path, args) / export(path, filter_name, args) up to the call of
\* storeToURL: without a path `stream = IOStream.output()` is a new
\* OutputStream handed to the host, with a path `stream` stays None
ExportCall ==
    \E method \in ExportMethods, path \in ExportPaths :
        /\ xpc \in {"idle", "returned"}
        /\ xpc' = "storing"
        /\ xcall' = [method |-> method, path |-> path]
        /\ ostream' = (path = "")
        /\ obuffer' = << >>
        /\ oclosed' = 0
        /\ owrites' = << >>
        /\ xret' = NoReturn
        /\ UNCHANGED exceptStream

\* the host, inside storeToURL, calls writeBytes(seq) on the stream
WriteBytes ==
    \E seq \in Chunks :
        /\ xpc = "storing"
        /\ ostream
        /\ Len(owrites) < MaxWrites
        /\ obuffer' = WriteBytesBuffer(obuffer, seq)
        /\ owrites' = Append(owrites, seq)
        /\ UNCHANGED <<ostream, oclosed, xpc, xcall, xret>>
        /\ UNCHANGED exceptStream

\* the host calls closeOutput on the stream
CloseOutput ==
    /\ xpc = "storing"
    /\ ostream
    /\ oclosed = 0
    /\ oclosed' = 1
    /\ UNCHANGED <<ostream, obuffer, owrites, xpc, xcall, xret>>
    /\ UNCHANGED exceptStream

\* storeToURL returns or raises, and the method ends: an exception is
\* handed to the handler; otherwise, and after export's handler, the result
\* is `stream.buffer`, or None when a path was given
StoreEnd ==
    \E raised \in BOOLEAN :
        /\ xpc = "storing"
        /\ xpc' = "returned"
        /\ xret' = IF raised /\ HandlerRaises(xcall.method)
                   THEN [kind |-> "NameError", val |-> << >>, logged |-> FALSE]
                   ELSE IF ostream
                   THEN [kind |-> "bytes", val |-> obuffer, logged |-> raised]
                   ELSE [kind |-> "None", val |-> << >>, logged |-> raised]
        /\ UNCHANGED <<ostream, obuffer, oclosed, owrites, xcall>>
        /\ UNCHANGED exceptStream

StreamInit == TimerInit

StreamNext == ExportCall \/ WriteBytes \/ CloseOutput \/ StoreEnd

StreamSpec == StreamInit /\ [][StreamNext]_vars

\* the concatenation, in order, of a sequence of byte sequences
RECURSIVE Concatenation(_)
Concatenation(chunks) ==
    IF chunks = << >> THEN << >>
    ELSE Head(chunks) \o Concatenation(Tail(chunks))

\* C22, as stated: the buffer of an OutputStream is the concatenation, in
\* call order, of the byte sequences given to writeBytes, and the bytes that
\* to_pdf / export return without a path are that concatenation.
C22_BufferIsAllWritten ==
    /\ ostream => obuffer = Concatenation(owrites)
    /\ (xpc = "returned" /\ xret.kind = "bytes") =>
           xret.val = Concatenation(owrites)

====
